---- MODULE Spec2Model ----
(***************************************************************************)
(* Model of src/_geometry_accel.cpp: the three callables of the module     *)
(* _geometry_accel (clip_lines_to_polygon, generate_line_fill,             *)
(* circle_circle_intersections) and the helpers they share.                *)
(*                                                                         *)
(* Numbers.  A C double is modelled by an exact rational <<n, d>> in       *)
(* lowest terms with d > 0, or by NaN (<<0, 0>>), the result of 0.0 / 0.0. *)
(* Rounding error of the double arithmetic is below the resolution of the  *)
(* model; square roots, which leave the rationals, are rounded down to a   *)
(* multiple of 1 / SqrtScale unless they are exact.  The tolerances of the *)
(* code (1e-9, 1e-10) are kept at their values: a tolerance 1/(a*b) is     *)
(* the pair <<a, b>>, compared without ever forming a*b.                   *)
(***************************************************************************)
EXTENDS Integers, Sequences, FiniteSets, TLC

VARIABLES fn, polygon, args, ret, prev, frame

vars == <<fn, polygon, args, ret, prev, frame>>

----------------------------------------------------------------------------
(* Rational arithmetic standing for double arithmetic.                     *)

Abs(i) == IF i < 0 THEN -i ELSE i

RECURSIVE GCD(_, _)
GCD(a, b) == IF b = 0 THEN a ELSE GCD(b, a % b)

\* The rational n/d (d # 0) in lowest terms with a positive denominator.
Norm(n, d) ==
    LET g == GCD(Abs(n), Abs(d))
        s == IF d < 0 THEN -1 ELSE 1
    IN  <<s * (n \div g), Abs(d) \div g>>

R(i) == <<i, 1>>
Q(n, d) == Norm(n, d)

NaN == <<0, 0>>
IsNaN(a) == a[2] = 0

RNeg(a) == <<-a[1], a[2]>>
RAbs(a) == <<Abs(a[1]), a[2]>>

RAdd(a, b) ==
    IF IsNaN(a) \/ IsNaN(b) THEN NaN
    ELSE LET g == GCD(a[2], b[2])
         IN  Norm(a[1] * (b[2] \div g) + b[1] * (a[2] \div g), (a[2] \div g) * b[2])

RSub(a, b) == RAdd(a, RNeg(b))

RMul(a, b) ==
    IF IsNaN(a) \/ IsNaN(b) THEN NaN
    ELSE LET g1 == GCD(Abs(a[1]), b[2])
             g2 == GCD(Abs(b[1]), a[2])
         IN  <<(a[1] \div g1) * (b[1] \div g2), (a[2] \div g2) * (b[2] \div g1)>>

\* a / b as the FPU divides: 0/0 is NaN.  (x/0 with x # 0, an infinity, is
\* not produced by any path of the modelled code on the inputs drawn here.)
RDiv(a, b) ==
    IF IsNaN(a) \/ IsNaN(b) \/ b[1] = 0 THEN NaN
    ELSE RMul(a, IF b[1] < 0 THEN <<-b[2], -b[1]>> ELSE <<b[2], b[1]>>)

\* Comparisons: every ordered comparison with a NaN is false.
RLt(a, b) ==
    /\ ~IsNaN(a)
    /\ ~IsNaN(b)
    /\ LET g == GCD(a[2], b[2])
       IN  a[1] * (b[2] \div g) < b[1] * (a[2] \div g)

RGt(a, b) == RLt(b, a)
RLe(a, b) == ~IsNaN(a) /\ ~IsNaN(b) /\ ~RLt(b, a)

\* static_cast<Py_ssize_t>(a) for a >= 0: truncation.
RTrunc(a) == a[1] \div a[2]

\* A tolerance 1/(e[1]*e[2]).  TolLt(a, e): a < 1/(e1*e2); TolGt(a, e): a > 1/(e1*e2).
TolLt(a, e) == ~IsNaN(a) /\ a[1] <= ((a[2] - 1) \div e[1]) \div e[2]
TolGt(a, e) == ~IsNaN(a) /\ a[1] > (a[2] \div e[1]) \div e[2]

RECURSIVE ISqrtIter(_, _)
ISqrtIter(n, x) ==
    LET y == (x + n \div x) \div 2
    IN  IF y >= x THEN x ELSE ISqrtIter(n, y)

\* floor(sqrt(n)) for n >= 0.
ISqrt(n) == IF n = 0 THEN 0 ELSE ISqrtIter(n, n)

\* Resolution of an inexact square root.
SqrtScale == 100

\* std::sqrt / std::hypot on a >= 0: exact when the root is rational.
RSqrt(a) ==
    LET rn == ISqrt(a[1])
        rd == ISqrt(a[2])
    IN  IF rn * rn = a[1] /\ rd * rd = a[2] THEN <<rn, rd>>
        ELSE Norm(ISqrt((a[1] * SqrtScale * SqrtScale) \div a[2]), SqrtScale)

Hypot(a, b) == RSqrt(RAdd(RMul(a, a), RMul(b, b)))

----------------------------------------------------------------------------
(* Values crossing the Python boundary.                                    *)
(* A buffer is [ndim, cols, format, rows]: rows is the sequence of its     *)
(* rows, each a point <<x, y>> when the buffer is (N, 2) float64.  A       *)
(* Python object is [kind |-> "none"], [kind |-> "num", v |-> a double],   *)
(* [kind |-> "str"] (a non-numeric scalar) or [kind |-> "seq", items |->   *)
(* a sequence of objects].  A call returns [kind |-> "list", val |-> ...]  *)
(* or [kind |-> "error", exc |-> the exception type].                      *)

Buffer(rows) == [ndim |-> 2, cols |-> 2, format |-> "d", rows |-> rows]

List(v) == [kind |-> "list", exc |-> "", val |-> v]
Error(e) == [kind |-> "error", exc |-> e, val |-> <<>>]

PyNone == [kind |-> "none"]
PyNum(a) == [kind |-> "num", v |-> a]
PyStr == [kind |-> "str"]
PySeq(items) == [kind |-> "seq", items |-> items]

\* ensure_double_2d: "" when the buffer is accepted, else the exception raised.
ensure_double_2d(view) ==
    IF view.ndim # 2 THEN "ValueError"
    ELSE IF view.cols # 2 THEN "ValueError"
    ELSE IF view.format # "d" THEN "TypeError"
    ELSE ""

----------------------------------------------------------------------------
(* Geometry primitives.  poly is a sequence of points; the C index i is    *)
(* the TLA+ index i + 1.                                                   *)

Tol1e9 == <<1000000000, 1>>

effective_polygon_length(poly) ==
    LET rows == Len(poly)
        first == poly[1]
        last == poly[rows]
    IN  IF rows > 1
           /\ TolLt(RAbs(RSub(first[1], last[1])), Tol1e9)
           /\ TolLt(RAbs(RSub(first[2], last[2])), Tol1e9)
        THEN rows - 1
        ELSE rows

\* a + 1e-300 in double arithmetic: the addend is absorbed unless a is 0
\* (a = 0 is never evaluated: the && before it has yi # yj).
AddTiny(a) == IF a[1] # 0 THEN a ELSE <<1, 2147483647>>

\* The toggle test with >= for > in the comparison of the y-values.
EdgeToggles_Closed(x, y, pi, pj) ==
    /\ RLe(y, pi[2]) # RLe(y, pj[2])
    /\ RLt(x, RAdd(RDiv(RMul(RSub(pj[1], pi[1]), RSub(y, pi[2])),
                        AddTiny(RSub(pj[2], pi[2]))),
                   pi[1]))

\* The toggle test of one edge (vertex i, vertex j) of point_in_polygon.
EdgeToggles(x, y, pi, pj) ==
    /\ RGt(pi[2], y) # RGt(pj[2], y)
    /\ RLt(x, RAdd(RDiv(RMul(RSub(pj[1], pi[1]), RSub(y, pi[2])),
                        AddTiny(RSub(pj[2], pi[2]))),
                   pi[1]))

RECURSIVE PipLoop(_, _, _, _, _, _, _)
PipLoop(x, y, poly, n, i, j, inside) ==
    IF i >= n THEN inside
    ELSE PipLoop(x, y, poly, n, i + 1, i,
                 IF EdgeToggles(x, y, poly[i + 1], poly[j + 1]) THEN ~inside ELSE inside)

\* The loop without the closing edge (vertex n-1 to vertex 0).
point_in_polygon_Open(x, y, poly, n) ==
    IF n < 3 THEN FALSE ELSE PipLoop(x, y, poly, n, 1, 0, FALSE)

point_in_polygon(x, y, poly, n) ==
    IF n < 3 THEN FALSE ELSE PipLoop(x, y, poly, n, 0, n - 1, FALSE)

NoHit == [hit |-> FALSE, t |-> R(0), x |-> R(0), y |-> R(0)]

\* Line 88.
Denominator(p1, p2, p3, p4) ==
    RSub(RMul(RSub(p1[1], p2[1]), RSub(p3[2], p4[2])),
         RMul(RSub(p1[2], p2[2]), RSub(p3[1], p4[1])))

\* Line 93.
ParamT(p1, p3, p4, denom) ==
    RDiv(RSub(RMul(RSub(p1[1], p3[1]), RSub(p3[2], p4[2])),
              RMul(RSub(p1[2], p3[2]), RSub(p3[1], p4[1]))), denom)

\* Line 94.
ParamU(p1, p2, p3, denom) ==
    RNeg(RDiv(RSub(RMul(RSub(p1[1], p2[1]), RSub(p1[2], p3[2])),
                   RMul(RSub(p1[2], p2[2]), RSub(p1[1], p3[1]))), denom))

\* Line 96: t or u is outside [-eps, 1 + eps].
OutOfRange(t, u, eps) ==
    \/ TolGt(RNeg(t), eps)
    \/ TolGt(RSub(t, R(1)), eps)
    \/ TolGt(RNeg(u), eps)
    \/ TolGt(RSub(u, R(1)), eps)

\* Lines 96-103.
HitAt(p1, p2, t, u, eps) ==
    IF OutOfRange(t, u, eps) THEN NoHit
    ELSE [hit |-> TRUE, t |-> t,
          x |-> RAdd(p1[1], RMul(t, RSub(p2[1], p1[1]))),
          y |-> RAdd(p1[2], RMul(t, RSub(p2[2], p1[2])))]

\* Lines 89-103.
HitWithDenom(p1, p2, p3, p4, eps, denom) ==
    IF TolLt(RAbs(denom), eps) THEN NoHit
    ELSE HitAt(p1, p2, ParamT(p1, p3, p4, denom), ParamU(p1, p2, p3, denom), eps)

compute_line_segment_intersection(p1, p2, p3, p4, eps) ==
    HitWithDenom(p1, p2, p3, p4, eps, Denominator(p1, p2, p3, p4))

\* parse_point_like: [exc |-> "" or the exception, x, y].
parse_point_like(obj) ==
    IF obj.kind # "seq" THEN [exc |-> "TypeError", x |-> R(0), y |-> R(0)]
    ELSE IF Len(obj.items) # 2 THEN [exc |-> "ValueError", x |-> R(0), y |-> R(0)]
    ELSE IF obj.items[1].kind # "num" THEN [exc |-> "TypeError", x |-> R(0), y |-> R(0)]
    ELSE IF obj.items[2].kind # "num" THEN [exc |-> "TypeError", x |-> obj.items[1].v, y |-> R(0)]
    ELSE [exc |-> "", x |-> obj.items[1].v, y |-> obj.items[2].v]

----------------------------------------------------------------------------
(* clip_lines_to_polygon.  The scratch array intersections is a sequence   *)
(* of polygon_len entries (index i of the code is index i + 1 here); an    *)
(* entry not yet written holds Unwritten.                                  *)

Unwritten == [t |-> NaN, x |-> NaN, y |-> NaN]

\* Lines 216-218: the record of a hit is stored at index count.
StoreHit(intersections, count, ip) ==
    IF ip.hit
    THEN <<[intersections EXCEPT ![count + 1] = [t |-> ip.t, x |-> ip.x, y |-> ip.y]],
           count + 1>>
    ELSE <<intersections, count>>

\* Lines 212-219: the scan of one line against every edge; sc is
\* <<intersections, count>>.
RECURSIVE ScanEdges(_, _, _, _, _, _, _)
ScanEdges(start, end, poly, polygon_len, eps, j, sc) ==
    IF j >= polygon_len THEN sc
    ELSE ScanEdges(start, end, poly, polygon_len, eps, j + 1,
                   StoreHit(sc[1], sc[2],
                            compute_line_segment_intersection(
                                start, end, poly[j + 1],
                                poly[((j + 1) % polygon_len) + 1], eps)))

\* One record put into a sequence sorted by t (after the records not greater).
RECURSIVE InsertByT(_, _)
InsertByT(sorted, ip) ==
    IF sorted = <<>> THEN <<ip>>
    ELSE IF RLt(ip.t, Head(sorted).t) THEN <<ip>> \o sorted
    ELSE <<Head(sorted)>> \o InsertByT(Tail(sorted), ip)

RECURSIVE SortedPrefix(_, _)
SortedPrefix(intersections, count) ==
    IF count = 0 THEN <<>>
    ELSE InsertByT(SortedPrefix(intersections, count - 1), intersections[count])

WritePrefix(intersections, count, sorted) ==
    [i \in DOMAIN intersections |-> IF i <= count THEN sorted[i] ELSE intersections[i]]

\* Lines 225-227: std::sort of the first count records by t.  Records with
\* equal t are equal in x and y as well, so their order cannot be seen.
SortByT(intersections, count) ==
    WritePrefix(intersections, count, SortedPrefix(intersections, count))

\* Record j compared with the record scanned before it.
IsRepeat_LastScanned(intersections, j, unique_count) ==
    /\ unique_count > 0
    /\ TolLt(RAbs(RSub(intersections[j + 1].t, intersections[j].t)), Tol1e9)

\* Line 231: the test that drops record j as a repeat of the last record kept.
IsRepeat(intersections, j, unique_count) ==
    /\ unique_count > 0
    /\ TolLt(RAbs(RSub(intersections[j + 1].t, intersections[unique_count].t)), Tol1e9)

\* Lines 229-235: the dedupe in place; <<intersections, unique_count>>.
RECURSIVE DedupeLoop(_, _, _, _)
DedupeLoop(intersections, count, j, unique_count) ==
    IF j >= count THEN <<intersections, unique_count>>
    ELSE IF IsRepeat(intersections, j, unique_count)
    THEN DedupeLoop(intersections, count, j + 1, unique_count)
    ELSE DedupeLoop([intersections EXCEPT ![unique_count + 1] = intersections[j + 1]],
                    count, j + 1, unique_count + 1)

Half == <<1, 2>>

\* Lines 242-247: the midpoint of the pair tests inside.
MidpointInside(a, b, poly, polygon_len) ==
    point_in_polygon(RMul(Half, RAdd(a.x, b.x)), RMul(Half, RAdd(a.y, b.y)),
                     poly, polygon_len)

\* Lines 237-286: the pairs (j, j+1), j = 0, 2, ..., appended to result when
\* the midpoint tests inside.
RECURSIVE PairLoop(_, _, _, _, _, _)
PairLoop(intersections, unique_count, j, poly, polygon_len, result) ==
    IF j + 1 >= unique_count THEN result
    ELSE PairLoop(intersections, unique_count, j + 2, poly, polygon_len,
                  IF MidpointInside(intersections[j + 1], intersections[j + 2],
                                    poly, polygon_len)
                  THEN Append(result, <<<<intersections[j + 1].x, intersections[j + 1].y>>,
                                        <<intersections[j + 2].x, intersections[j + 2].y>>>>)
                  ELSE result)

\* Lines 237-286 after the dedupe dd = <<intersections, unique_count>>.
PairsOf(dd, poly, polygon_len, result) ==
    <<dd[1], PairLoop(dd[1], dd[2], 0, poly, polygon_len, result)>>

\* Lines 221-286 after the scan sc = <<intersections, count>>.
AfterScan(sc, poly, polygon_len, result) ==
    IF sc[2] < 2 THEN <<sc[1], result>>
    ELSE PairsOf(DedupeLoop(SortByT(sc[1], sc[2]), sc[2], 0, 0), poly, polygon_len, result)

\* Lines 208-286: one iteration of the loop over the lines; the scratch array
\* is handed from line to line as the code reuses it.  <<intersections, result>>.
ClipOneLine(start, end, poly, polygon_len, eps, intersections, result) ==
    AfterScan(ScanEdges(start, end, poly, polygon_len, eps, 0, <<intersections, 0>>),
              poly, polygon_len, result)

RECURSIVE ClipLoop(_, _, _, _, _, _, _, _)
ClipLoop(line_starts, line_ends, num_lines, i, poly, polygon_len, eps, st) ==
    \* (Len(st[2]) < 0 is never true: the test has the result built so far
    \* evaluated before the next line is taken up.)
    IF i >= num_lines \/ Len(st[2]) < 0 THEN st[2]
    ELSE ClipLoop(line_starts, line_ends, num_lines, i + 1, poly, polygon_len, eps,
                  ClipOneLine(line_starts[i + 1], line_ends[i + 1], poly, polygon_len,
                              eps, st[1], st[2]))

\* A polygon of effective length under 3 refused with an error.
ClipRows_Refusing(poly, polygon_len, line_starts, line_ends, eps) ==
    IF polygon_len < 3 THEN Error("ValueError")
    ELSE IF Len(line_starts) <= 0 THEN List(<<>>)
    ELSE List(ClipLoop(line_starts, line_ends, Len(line_starts), 0, poly, polygon_len, eps,
                       <<[i \in 1..polygon_len |-> Unwritten], <<>>>>))

\* Lines 181-293, the buffers accepted.
ClipRows(poly, polygon_len, line_starts, line_ends, eps) ==
    IF polygon_len < 3 \/ Len(line_starts) <= 0 THEN List(<<>>)
    ELSE List(ClipLoop(line_starts, line_ends, Len(line_starts), 0, poly, polygon_len, eps,
                       <<[i \in 1..polygon_len |-> Unwritten], <<>>>>))

\* Lines 153-172: "" or the exception that ends the call.
ClipArgumentError(poly_view, start_view, end_view) ==
    IF ensure_double_2d(poly_view) # "" THEN ensure_double_2d(poly_view)
    ELSE IF ensure_double_2d(start_view) # "" THEN ensure_double_2d(start_view)
    ELSE IF ensure_double_2d(end_view) # "" THEN ensure_double_2d(end_view)
    ELSE IF Len(start_view.rows) # Len(end_view.rows) THEN "ValueError"
    ELSE ""

\* Lines 139-294.
clip_lines_to_polygon(poly_view, start_view, end_view, eps) ==
    IF ClipArgumentError(poly_view, start_view, end_view) # ""
    THEN Error(ClipArgumentError(poly_view, start_view, end_view))
    ELSE ClipRows(poly_view.rows, effective_polygon_length(poly_view.rows),
                  start_view.rows, end_view.rows, eps)

----------------------------------------------------------------------------
(* generate_line_fill.                                                     *)

\* Lines 395-397: <<cos, sin>> of angle_deg * kDegToRad, for the angles the
\* model draws (degrees, a rational); 53.13 degrees is the 3-4-5 angle.
Angle345 == Q(5313, 100)

UnitDirection(angle_deg) ==
    CASE angle_deg = R(0) -> <<R(1), R(0)>>
      [] angle_deg = R(90) -> <<R(0), R(1)>>
      [] angle_deg = R(180) -> <<R(-1), R(0)>>
      [] angle_deg = Angle345 -> <<Q(3, 5), Q(4, 5)>>

\* Lines 349-354: the mean of the effective vertices.
RECURSIVE SumCoord(_, _, _)
SumCoord(poly, n, c) ==
    IF n = 0 THEN R(0) ELSE RAdd(SumCoord(poly, n - 1, c), poly[n][c])

MeanVertex(poly, polygon_len) ==
    <<RDiv(SumCoord(poly, polygon_len, 1), R(polygon_len)),
      RDiv(SumCoord(poly, polygon_len, 2), R(polygon_len))>>

RMin(a, b) == IF RLt(b, a) THEN b ELSE a
RMax(a, b) == IF RGt(b, a) THEN b ELSE a

RECURSIVE MinCoord(_, _, _)
MinCoord(poly, n, c) ==
    IF n = 1 THEN poly[1][c] ELSE RMin(MinCoord(poly, n - 1, c), poly[n][c])

RECURSIVE MaxCoord(_, _, _)
MaxCoord(poly, n, c) ==
    IF n = 1 THEN poly[1][c] ELSE RMax(MaxCoord(poly, n - 1, c), poly[n][c])

\* Lines 367-387: the diagonal of the bounding box of the effective vertices.
BBoxDiagonal(poly, polygon_len) ==
    Hypot(RSub(MaxCoord(poly, polygon_len, 1), MinCoord(poly, polygon_len, 1)),
          RSub(MaxCoord(poly, polygon_len, 2), MinCoord(poly, polygon_len, 2)))

Tiny1e6 == <<1, 1000000>>

\* Lines 401-402: the number of lines on each side of the centre.
\* The count from the spacing as given.
LineCount_Unguarded(bbox_diag, spacing) == RTrunc(RDiv(bbox_diag, spacing)) + 3

LineCount(bbox_diag, spacing) ==
    LET safe_spacing == IF RLt(spacing, Tiny1e6) THEN Tiny1e6 ELSE spacing
    IN  RTrunc(RDiv(bbox_diag, safe_spacing)) + 3

FillEps == <<100000, 100000>>

\* Lines 438-440.
PushHit(intersections, ip) ==
    IF ip.hit THEN Append(intersections, [t |-> ip.t, x |-> ip.x, y |-> ip.y])
    ELSE intersections

\* Lines 433-441: intersections.push_back for every edge that is hit.
RECURSIVE FillScan(_, _, _, _, _, _)
FillScan(start, end, poly, polygon_len, j, intersections) ==
    IF j >= polygon_len THEN intersections
    ELSE FillScan(start, end, poly, polygon_len, j + 1,
                  PushHit(intersections,
                          compute_line_segment_intersection(
                              start, end, poly[j + 1],
                              poly[((j + 1) % polygon_len) + 1], FillEps)))

\* Line 453: the test that skips ip as a repeat of unique_intersections.back().
FillIsRepeat(unique_intersections, ip) ==
    /\ unique_intersections # <<>>
    /\ TolLt(RAbs(RSub(ip.t, unique_intersections[Len(unique_intersections)].t)), Tol1e9)

\* Lines 451-457.
RECURSIVE FillDedupe(_, _, _)
FillDedupe(intersections, k, unique_intersections) ==
    IF k > Len(intersections) THEN unique_intersections
    ELSE FillDedupe(intersections, k + 1,
                    IF FillIsRepeat(unique_intersections, intersections[k])
                    THEN unique_intersections
                    ELSE Append(unique_intersections, intersections[k]))

\* Lines 459-475.
RECURSIVE FillPairs(_, _, _, _, _)
FillPairs(unique_intersections, k, poly, polygon_len, segments) ==
    IF k + 1 >= Len(unique_intersections) THEN segments
    ELSE FillPairs(unique_intersections, k + 2, poly, polygon_len,
                   IF MidpointInside(unique_intersections[k + 1], unique_intersections[k + 2],
                                     poly, polygon_len)
                   THEN Append(segments,
                               <<<<unique_intersections[k + 1].x, unique_intersections[k + 1].y>>,
                                 <<unique_intersections[k + 2].x, unique_intersections[k + 2].y>>>>)
                   ELSE segments)

\* Lines 443-475 after the scan.
FillAfterScan(intersections, poly, polygon_len, segments) ==
    IF Len(intersections) < 2 THEN segments
    ELSE FillPairs(FillDedupe(SortedPrefix(intersections, Len(intersections)), 1, <<>>),
                   0, poly, polygon_len, segments)

\* Lines 423-431: an end of the base line moved by offset along perp.
OffsetPoint(p, offset, perp) ==
    <<RAdd(p[1], RMul(offset, perp[1])), RAdd(p[2], RMul(offset, perp[2]))>>

\* Lines 423-475: the line of offset index idx, clipped; segments extended.
FillOneLine(idx, spacing, base, perp, poly, polygon_len, segments) ==
    FillAfterScan(FillScan(OffsetPoint(base[1], RMul(R(idx), spacing), perp),
                           OffsetPoint(base[2], RMul(R(idx), spacing), perp),
                           poly, polygon_len, 0, <<>>),
                  poly, polygon_len, segments)

RECURSIVE FillLoop(_, _, _, _, _, _, _, _)
FillLoop(idx, num_lines, spacing, base, perp, poly, polygon_len, segments) ==
    \* (Len(segments) < 0 is never true: the test has the vector built so far
    \* evaluated before the next line is taken up.)
    IF idx > num_lines \/ Len(segments) < 0 THEN segments
    ELSE FillLoop(idx + 1, num_lines, spacing, base, perp, poly, polygon_len,
                  FillOneLine(idx, spacing, base, perp, poly, polygon_len, segments))

\* Lines 404-410: <<start_base, end_base>>.
BaseLine(centroid, line_dir, span_scale) ==
    <<<<RSub(centroid[1], RMul(line_dir[1], span_scale)),
        RSub(centroid[2], RMul(line_dir[2], span_scale))>>,
      <<RAdd(centroid[1], RMul(line_dir[1], span_scale)),
        RAdd(centroid[2], RMul(line_dir[2], span_scale))>>>>

\* Lines 398-399.
Perp(line_dir) == <<RNeg(line_dir[2]), line_dir[1]>>

\* Line 422.
FillLines(num_lines, spacing, base, perp, poly, polygon_len) ==
    FillLoop(-num_lines, num_lines, spacing, base, perp, poly, polygon_len, <<>>)

\* Lines 395-476, with centroid, bbox_diag and overshoot resolved.
FillSegments(poly, polygon_len, spacing, angle_deg, centroid, bbox_diag, overshoot) ==
    FillLines(LineCount(bbox_diag, spacing), spacing,
              BaseLine(centroid, UnitDirection(angle_deg), RMul(bbox_diag, overshoot)),
              Perp(UnitDirection(angle_deg)), poly, polygon_len)

\* Lines 357-388: bbox_diag from the argument, or computed when it is absent
\* or not positive.
ResolveBBox(bbox_obj, poly, polygon_len) ==
    IF bbox_obj.kind = "num" /\ RGt(bbox_obj.v, R(0)) THEN bbox_obj.v
    ELSE BBoxDiagonal(poly, polygon_len)

\* Lines 341-355: [exc, x, y].
ResolveCentroid(centroid_obj, poly, polygon_len) ==
    IF centroid_obj.kind # "none" THEN parse_point_like(centroid_obj)
    ELSE [exc |-> "", x |-> MeanVertex(poly, polygon_len)[1],
          y |-> MeanVertex(poly, polygon_len)[2]]

\* Lines 324-326.
ResolveOvershoot(overshoot) == IF RLe(overshoot, R(0)) THEN R(2) ELSE overshoot

\* Lines 390-516.
FillWithBBox(poly, polygon_len, spacing, angle_deg, centroid, bbox_diag, overshoot) ==
    IF RLe(bbox_diag, R(0)) THEN List(<<>>)
    ELSE List(FillSegments(poly, polygon_len, spacing, angle_deg, centroid, bbox_diag,
                           overshoot))

\* Lines 343-516, c the resolved centroid or its error.
FillWithCentroid(poly, polygon_len, spacing, angle_deg, c, bbox_obj, overshoot) ==
    IF c.exc # "" THEN Error(c.exc)
    ELSE IF bbox_obj.kind \notin {"none", "num"} THEN Error("TypeError")
    ELSE FillWithBBox(poly, polygon_len, spacing, angle_deg, <<c.x, c.y>>,
                      ResolveBBox(bbox_obj, poly, polygon_len), overshoot)

\* Lines 336-516.
FillRows(poly, polygon_len, spacing, angle_deg, centroid_obj, bbox_obj, overshoot) ==
    IF polygon_len < 3 THEN List(<<>>)
    ELSE FillWithCentroid(poly, polygon_len, spacing, angle_deg,
                          ResolveCentroid(centroid_obj, poly, polygon_len), bbox_obj,
                          overshoot)

\* Lines 296-516.
generate_line_fill(poly_view, spacing, angle_deg, centroid_obj, bbox_obj, overshoot) ==
    IF RLe(spacing, R(0)) THEN Error("ValueError")
    ELSE IF ensure_double_2d(poly_view) # "" THEN Error(ensure_double_2d(poly_view))
    ELSE FillRows(poly_view.rows, effective_polygon_length(poly_view.rows), spacing,
                  angle_deg, centroid_obj, bbox_obj, ResolveOvershoot(overshoot))

----------------------------------------------------------------------------
(* circle_circle_intersections.  A point (a Python complex) is <<x, y>>.   *)

\* Lines 546-549.
HalfChord(h_sq) == IF RGt(h_sq, R(0)) THEN RSqrt(RMax(h_sq, R(0))) ELSE R(0)

\* The second point appended from h = tol on.
EmitsSecond_AtTol(h, tol) == RLe(tol, h)

\* Line 570: the second point is appended.
EmitsSecond(h, tol) == RGt(h, tol)

\* Line 535: the circles are too far apart, nested, or concentric.
NoIntersection(d, r1, r2, tol) ==
    \/ RGt(d, RAdd(RAdd(r1, r2), tol))
    \/ RLt(d, RSub(RAbs(RSub(r1, r2)), tol))
    \/ RLt(d, tol)

\* Line 539.
ChordOffset(r1, r2, d) ==
    RDiv(RAdd(RSub(RMul(r1, r1), RMul(r2, r2)), RMul(d, d)), RMul(R(2), d))

\* Line 540.
HalfChordSq(r1, a) == RSub(RMul(r1, r1), RMul(a, a))

\* Lines 556-586: the point mid + h*r, and mid - h*r when h > tol.
CirclePoints(mid, r, h, tol) ==
    IF EmitsSecond(h, tol)
    THEN List(<<<<RAdd(mid[1], RMul(h, r[1])), RAdd(mid[2], RMul(h, r[2]))>>,
                <<RSub(mid[1], RMul(h, r[1])), RSub(mid[2], RMul(h, r[2]))>>>>)
    ELSE List(<<<<RAdd(mid[1], RMul(h, r[1])), RAdd(mid[2], RMul(h, r[2]))>>>>)

\* Lines 542-586.
CircleWithHSq(cx1, cy1, tol, dx, dy, d, a, h_sq) ==
    IF RLt(h_sq, RNeg(tol)) THEN List(<<>>)
    ELSE CirclePoints(<<RAdd(cx1, RDiv(RMul(a, dx), d)), RAdd(cy1, RDiv(RMul(a, dy), d))>>,
                      <<RDiv(RNeg(dy), d), RDiv(dx, d)>>,
                      HalfChord(h_sq), tol)

\* Lines 539-586.
CircleWithA(cx1, cy1, r1, tol, dx, dy, d, a) ==
    CircleWithHSq(cx1, cy1, tol, dx, dy, d, a, HalfChordSq(r1, a))

\* Lines 535-586.
CircleWithDistance(cx1, cy1, r1, r2, tol, dx, dy, d) ==
    IF NoIntersection(d, r1, r2, tol) THEN List(<<>>)
    ELSE CircleWithA(cx1, cy1, r1, tol, dx, dy, d, ChordOffset(r1, r2, d))

\* Lines 518-587.
circle_circle_intersections(cx1, cy1, r1, cx2, cy2, r2, tol) ==
    CircleWithDistance(cx1, cy1, r1, r2, tol, RSub(cx2, cx1), RSub(cy2, cy1),
                       Hypot(RSub(cx2, cx1), RSub(cy2, cy1)))

----------------------------------------------------------------------------
(* The inputs the model draws.                                             *)

\* Rows of a polygon drawn from the unit grid.
MaxRows == 4
\* Lines in one call of clip_lines_to_polygon.
MaxLines == 2
\* Length of the long input line (x from -1 to FarLen - 1).
FarLen == 1050000000

DefaultEps == <<100000, 100000>>
EpsChoices == {DefaultEps, <<2, 1>>}

Pt(a, b) == <<R(a), R(b)>>
\* The point (a/2, b/2).
HPt(a, b) == <<Q(a, 2), Q(b, 2)>>

GridPoints == {Pt(a, b) : a \in 0..1, b \in 0..1}

SeqsUpTo(S, n) == UNION {[1..k -> S] : k \in 0..n}

Square == <<Pt(0, 0), Pt(1, 0), Pt(1, 1), Pt(0, 1)>>
Notch5 == <<Pt(0, 0), Pt(2, 0), Pt(2, 1), HPt(2, 1), Pt(0, 1)>>
Notch6 == <<Pt(0, 0), Pt(3, 0), Pt(3, 1), Pt(2, 1), HPt(2, 1), Pt(0, 1)>>

NamedPolygons ==
    { Square \o <<Pt(0, 0)>>,
      <<Pt(0, 0), Pt(3, 0), Pt(3, 1), Pt(0, 1)>>,
      <<Pt(0, 0), Pt(2, 0), Pt(1, 1)>>,
      <<Pt(0, 0), Pt(1, 0), Pt(2, 1), Pt(1, 1)>>,
      <<Pt(0, 0), Pt(1, 0), Pt(2, 0), Pt(2, 1), Pt(0, 1)>>,
      <<Pt(0, 0), Pt(1, 0), Pt(0, 0), Pt(1, 0), Pt(0, 0), Pt(1, 0)>>,
      Notch5, Notch6 }

PolygonRows == SeqsUpTo(GridPoints, MaxRows) \cup NamedPolygons

\* Buffers the adapter refuses: wrong rank, wrong second dimension, wrong dtype.
BadBuffers ==
    { [Buffer(Square) EXCEPT !.ndim = 1],
      [Buffer(Square) EXCEPT !.cols = 3],
      [Buffer(Square) EXCEPT !.format = "f"] }

PolygonBuffers == {Buffer(rows) : rows \in PolygonRows} \cup BadBuffers

FarLine == <<HPt(-2, 1), <<R(FarLen - 1), Q(1, 2)>>>>

ShortLines ==
    { <<HPt(-2, 1), HPt(4, 1)>>,
      <<HPt(4, 1), HPt(-2, 1)>>,
      <<HPt(-2, 1), HPt(8, 1)>>,
      <<HPt(1, -2), HPt(1, 4)>>,
      <<Pt(-1, -1), Pt(2, 2)>>,
      <<Pt(-1, 2), Pt(2, -1)>>,
      <<Pt(-1, 0), Pt(2, 0)>>,
      <<Pt(0, -1), Pt(0, 2)>>,
      <<Pt(-1, 0), Pt(1, 2)>>,
      <<<<R(-1), Q(1, 4)>>, <<R(2), Q(3, 4)>>>>,
      <<<<Q(1, 4), Q(1, 2)>>, <<Q(3, 4), Q(1, 2)>>>>,
      <<HPt(1, 1), HPt(4, 1)>>,
      <<HPt(0, 1), HPt(2, 1)>>,
      <<HPt(1, 1), HPt(1, 1)>> }

LineChoices == ShortLines \cup {FarLine, <<FarLine[2], FarLine[1]>>}

\* The lines that calls of two or more lines are made of.
PairLines == {<<HPt(-2, 1), HPt(4, 1)>>, <<HPt(1, -2), HPt(1, 4)>>, FarLine}

LineInputs ==
    {<<>>} \cup {<<l>> : l \in LineChoices}
           \cup UNION {[1..k -> PairLines] : k \in 2..MaxLines}

Starts(ls) == [i \in 1..Len(ls) |-> ls[i][1]]
Ends(ls) == [i \in 1..Len(ls) |-> ls[i][2]]

NoArgs == [none |-> TRUE]
NoRet == [kind |-> "none", exc |-> "", val |-> <<>>]
\* No call of clip_lines_to_polygon is in progress: there are no locals.
NoFrame == [pc |-> "none"]

----------------------------------------------------------------------------
(* Calls of clip_lines_to_polygon.  The kernel keeps no state between      *)
(* calls: a state holds the arguments and the result of the last call,     *)
(* and, after a second call on a segment of the first result, that         *)
(* segment (prev).                                                         *)

InitClip ==
    /\ fn = "idle"
    /\ polygon \in PolygonBuffers
    /\ args = NoArgs
    /\ ret = NoRet
    /\ prev = <<>>
    /\ frame = NoFrame

\* clip_lines_to_polygon(polygon, line_starts, line_ends, eps)
CallClip ==
    /\ fn = "idle"
    /\ \E ls \in LineInputs, eps \in EpsChoices :
          /\ args' = [line_starts |-> Buffer(Starts(ls)), line_ends |-> Buffer(Ends(ls)),
                      eps |-> eps]
          /\ ret' = clip_lines_to_polygon(polygon, Buffer(Starts(ls)), Buffer(Ends(ls)), eps)
    /\ fn' = "clip"
    /\ UNCHANGED <<polygon, prev, frame>>

\* The same call with line_ends one row longer than line_starts, or with a
\* line buffer the adapter refuses.
CallClipBadLines ==
    /\ fn = "idle"
    /\ \E ls \in {<<>>, <<FarLine>>}, first \in BOOLEAN :
       \E bad \in BadBuffers \cup {Buffer(Ends(ls) \o <<Pt(0, 0)>>)} :
          /\ args' = [line_starts |-> IF first THEN bad ELSE Buffer(Starts(ls)),
                      line_ends |-> IF first THEN Buffer(Ends(ls)) ELSE bad,
                      eps |-> DefaultEps]
          /\ ret' = clip_lines_to_polygon(polygon, args'.line_starts, args'.line_ends,
                                          DefaultEps)
    /\ fn' = "clip"
    /\ UNCHANGED <<polygon, prev, frame>>

\* clip_lines_to_polygon again, on one segment of the result as the only line.
ReClip ==
    /\ fn = "clip"
    /\ ret.kind = "list"
    /\ \E k \in 1..Len(ret.val) :
          /\ prev' = <<ret.val[k]>>
          /\ args' = [line_starts |-> Buffer(<<ret.val[k][1]>>),
                      line_ends |-> Buffer(<<ret.val[k][2]>>), eps |-> args.eps]
          /\ ret' = clip_lines_to_polygon(polygon, Buffer(<<ret.val[k][1]>>),
                                          Buffer(<<ret.val[k][2]>>), args.eps)
    /\ fn' = "reclip"
    /\ UNCHANGED <<polygon, frame>>

NextClip == CallClip \/ CallClipBadLines \/ ReClip

SpecClip == InitClip /\ [][NextClip]_vars

----------------------------------------------------------------------------
(* Calls of generate_line_fill.                                            *)

Triangle == <<Pt(0, 0), Pt(2, 0), Pt(1, 1)>>

FillPolygonRows ==
    NamedPolygons \cup
    { Square, Triangle,
      <<Pt(0, 0), Pt(1, 0)>>,
      <<Pt(0, 0), Pt(1, 0), Pt(0, 0)>>,
      <<Pt(0, 0), Pt(1, 0), Pt(2, 0)>>,
      <<Pt(1, 1), Pt(1, 1), Pt(1, 1), Pt(1, 1)>> }

FillPolygonBuffers == {Buffer(rows) : rows \in FillPolygonRows} \cup BadBuffers

TinySpacing == Q(1, 10000000)
TinyDiag == Q(1, 1000000)
HugeOvershoot == R(1000000)

SpacingChoices == {Q(1, 4), Q(1, 2), TinySpacing, R(0), R(-1)}
AngleChoices == {R(0), R(90), R(180), Angle345}
CentroidChoices ==
    { PyNone,
      PySeq(<<PyNum(Q(1, 2)), PyNum(Q(1, 2))>>),
      PySeq(<<PyNum(R(1)), PyNum(R(0))>>),
      PyNum(R(1)),
      PySeq(<<PyNum(R(0)), PyNum(R(0)), PyNum(R(0))>>),
      PySeq(<<PyNum(R(0)), PyStr>>),
      PySeq(<<PyStr, PyStr>>) }
BBoxChoices == {PyNone, PyNum(R(0)), PyNum(R(2)), PyNum(TinyDiag), PyStr}
OvershootChoices == {R(2), R(0), R(1), HugeOvershoot}

\* The combinations drawn: a spacing under 1e-6 only with a diagonal of 1e-6
\* (else the call makes a million lines), and that diagonal only with lines
\* stretched back to the size of the polygon.
FillArgs ==
    { a \in [spacing : SpacingChoices, angle : AngleChoices, centroid : CentroidChoices,
             bbox_diag : BBoxChoices, overshoot : OvershootChoices] :
        /\ (a.spacing = TinySpacing) => (a.bbox_diag = PyNum(TinyDiag))
        /\ (a.bbox_diag = PyNum(TinyDiag)) <=> (a.overshoot = HugeOvershoot)
        /\ RLe(a.spacing, R(0)) => (a.angle = R(0) /\ a.overshoot = R(2))
        /\ (a.centroid.kind # "none" \/ a.bbox_diag.kind = "str")
              => (a.angle \in {R(0), Angle345} /\ a.overshoot \in {R(2), HugeOvershoot}) }

InitFill ==
    /\ fn = "idle"
    /\ polygon \in FillPolygonBuffers
    /\ args = NoArgs
    /\ ret = NoRet
    /\ prev = <<>>
    /\ frame = NoFrame

\* generate_line_fill(polygon, spacing, angle, centroid, bbox_diag, overshoot)
CallFill ==
    /\ fn = "idle"
    /\ \E a \in FillArgs :
          /\ args' = a
          /\ ret' = generate_line_fill(polygon, a.spacing, a.angle, a.centroid,
                                       a.bbox_diag, a.overshoot)
    /\ fn' = "fill"
    /\ UNCHANGED <<polygon, prev, frame>>

NextFill == CallFill

SpecFill == InitFill /\ [][NextFill]_vars

----------------------------------------------------------------------------
(* Calls of circle_circle_intersections.                                   *)

\* The centres drawn are a whole distance apart, so that d is exact.
CircleArgs ==
    { a \in [cx1 : {R(0), R(1)}, cy1 : {R(0)}, r1 : {R(0), R(1), R(2), Q(3, 2), R(-1)},
             cx2 : {R(0), R(1), R(2), R(3), R(4)}, cy2 : {R(0), R(1), R(4)},
             r2 : {R(0), R(1), R(2), R(5)},
             tol : {R(-1), Q(-1, 100), R(0), Q(1, 100), R(1)}] :
        Hypot(RSub(a.cx2, a.cx1), RSub(a.cy2, a.cy1))[2] = 1 }

InitCircle ==
    /\ fn = "idle"
    /\ polygon = Buffer(<<>>)
    /\ args = NoArgs
    /\ ret = NoRet
    /\ prev = <<>>
    /\ frame = NoFrame

\* circle_circle_intersections(cx1, cy1, r1, cx2, cy2, r2, tol)
CallCircle ==
    /\ fn = "idle"
    /\ \E a \in CircleArgs :
          /\ args' = a
          /\ ret' = circle_circle_intersections(a.cx1, a.cy1, a.r1, a.cx2, a.cy2, a.r2, a.tol)
    /\ fn' = "circle"
    /\ UNCHANGED <<polygon, prev, frame>>

NextCircle == CallCircle

SpecCircle == InitCircle /\ [][NextCircle]_vars

----------------------------------------------------------------------------
(* Calls of point_in_polygon, as the two callers make them (n the          *)
(* effective length), on a ring and then on its rotations.                 *)

Queries == {<<Q(a, 2), Q(b, 4)>> : a \in {-1, 0, 1, 2, 3, 5}, b \in {0, 1, 2, 4}}

\* The first n rows, started one vertex later.
RotateRing(poly, n) == [i \in 1..n |-> poly[(i % n) + 1]]

InitPip ==
    /\ fn = "idle"
    /\ polygon \in {Buffer(rows) : rows \in PolygonRows}
    /\ args = NoArgs
    /\ ret = NoRet
    /\ prev = <<>>
    /\ frame = NoFrame

\* point_in_polygon(x, y, polygon, polygon_len)
CallPip ==
    /\ fn = "idle"
    /\ \E q \in Queries :
          /\ args' = [x |-> q[1], y |-> q[2], n |-> effective_polygon_length(polygon.rows)]
          /\ ret' = [kind |-> "bool", exc |-> "",
                     val |-> point_in_polygon(q[1], q[2], polygon.rows,
                                              effective_polygon_length(polygon.rows))]
          /\ prev' = <<ret'.val>>
    /\ fn' = "pip"
    /\ UNCHANGED <<polygon, frame>>

\* The same query on the ring started one vertex later.
CallPipRotated ==
    /\ fn \in {"pip", "rotated"}
    /\ args.n >= 3
    /\ polygon' = Buffer(RotateRing(polygon.rows, args.n))
    /\ ret' = [kind |-> "bool", exc |-> "",
               val |-> point_in_polygon(args.x, args.y, polygon'.rows, args.n)]
    /\ fn' = "rotated"
    /\ UNCHANGED <<args, prev, frame>>

NextPip == CallPip \/ CallPipRotated

SpecPip == InitPip /\ [][NextPip]_vars

----------------------------------------------------------------------------
(* Properties of circle_circle_intersections.                              *)

IdenticalCircles ==
    /\ fn = "circle"
    /\ args.cx1 = args.cx2
    /\ args.cy1 = args.cy2
    /\ args.r1 = args.r2

\* C4: called with two identical circles (same centre, same radius),
\* circle_circle_intersections returns an empty list for every tol, zero and
\* negative included; it never returns a point.
C4_IdenticalCirclesEmpty == IdenticalCircles => ret = List(<<>>)

\* The length the conditions of C5 give, from the arguments alone.
C5_Length ==
    LET d == Hypot(RSub(args.cx2, args.cx1), RSub(args.cy2, args.cy1))
        a == RDiv(RAdd(RSub(RMul(args.r1, args.r1), RMul(args.r2, args.r2)), RMul(d, d)),
                  RMul(R(2), d))
        h_sq == RSub(RMul(args.r1, args.r1), RMul(a, a))
        h == IF RGt(h_sq, R(0)) THEN RSqrt(h_sq) ELSE R(0)
    IN  IF \/ RGt(d, RAdd(RAdd(args.r1, args.r2), args.tol))
           \/ RLt(d, RSub(RAbs(RSub(args.r1, args.r2)), args.tol))
           \/ RLt(d, args.tol)
           \/ RLt(h_sq, RNeg(args.tol))
        THEN 0
        ELSE IF RLe(h, args.tol) THEN 1 ELSE 2

TangentUnitCircles ==
    /\ fn = "circle"
    /\ <<args.cx1, args.cy1, args.r1>> = <<R(0), R(0), R(1)>>
    /\ <<args.cx2, args.cy2, args.r2>> = <<R(2), R(0), R(1)>>
    /\ RLe(R(0), args.tol)

\* C5: circle_circle_intersections returns 0, 1 or 2 points: none when
\* d > r1+r2+tol, d < |r1-r2|-tol, d < tol or h^2 < -tol; otherwise one point
\* when h <= tol and two when h > tol.  Circles (0,0) r=1 and (2,0) r=1 (with a
\* tolerance that is not negative) give exactly the one point (1,0).
C5_PointCount ==
    (fn = "circle") =>
        /\ ret.kind = "list"
        /\ Len(ret.val) = C5_Length
        /\ TangentUnitCircles => ret.val = <<<<R(1), R(0)>>>>

\* C5 witnesses: a call returning two points, one returning one point that is
\* not the tangent example, and the tangent example itself.
C5_Witness ==
    /\ fn = "circle"
    /\ Len(ret.val) = 2
    /\ RGt(args.tol, R(0))

C5_WitnessTangent == TangentUnitCircles /\ args.tol = R(0) /\ Len(ret.val) = 1

----------------------------------------------------------------------------
(* Properties of point_in_polygon.                                         *)

\* C6: point_in_polygon gives the same result for a query point on a polygon
\* of n >= 3 effective vertices and on every cyclic rotation of its effective
\* vertex list, points level with a vertex or on an edge included.
C6_RotationInvariant == (fn = "rotated") => (ret.val = prev[1])

\* A rotated ring answering "inside" for a point level with one of its vertices.
C6_Witness ==
    /\ fn = "rotated"
    /\ ret.val
    /\ \E i \in 1..args.n : polygon.rows[i][2] = args.y

----------------------------------------------------------------------------
(* Properties of clip_lines_to_polygon.                                    *)

WellFormed(view) == view.ndim = 2 /\ view.cols = 2 /\ view.format = "d"

\* The last call was clip_lines_to_polygon, on arguments it accepts.
ClipCalled ==
    /\ fn \in {"clip", "reclip"}
    /\ WellFormed(polygon)
    /\ WellFormed(args.line_starts)
    /\ WellFormed(args.line_ends)
    /\ Len(args.line_starts.rows) = Len(args.line_ends.rows)

DistinctVertices(rows) == {rows[i] : i \in 1..Len(rows)}

\* C1: clip_lines_to_polygon returns an empty list, and no error, for every
\* set of M >= 0 lines whenever the polygon has at most 2 distinct vertices,
\* whether its effective length is under 3 or its rows repeat one or two points.
C1_DegenerateEmpty ==
    (ClipCalled /\ Cardinality(DistinctVertices(polygon.rows)) <= 2)
        => ret = List(<<>>)

\* A polygon of two distinct points and effective length 3 or more, and a
\* line for which two or more edges give a record.
C1_Witness ==
    /\ ClipCalled
    /\ Cardinality(DistinctVertices(polygon.rows)) = 2
    /\ effective_polygon_length(polygon.rows) >= 3
    /\ Len(args.line_starts.rows) = 1
    /\ ScanEdges(args.line_starts.rows[1], args.line_ends.rows[1], polygon.rows,
                 effective_polygon_length(polygon.rows), args.eps, 0,
                 <<[i \in 1..Len(polygon.rows) |-> Unwritten], 0>>)[2] >= 2
    /\ ret = List(<<>>)

\* The records of one line that C9 starts from: one per edge with an accepted
\* intersection, sorted by t ascending.
C9_Sorted(start, end) ==
    LET n == effective_polygon_length(polygon.rows)
        sc == ScanEdges(start, end, polygon.rows, n, args.eps, 0,
                        <<[i \in 1..n |-> Unwritten], 0>>)
    IN  SubSeq(SortByT(sc[1], sc[2]), 1, sc[2])

\* The records kept: a record is dropped when its t is within 1e-9 of the
\* last record kept so far.
RECURSIVE C9_Kept(_, _, _)
C9_Kept(records, i, kept) ==
    IF i > Len(records) THEN kept
    ELSE IF kept # <<>>
            /\ TolLt(RAbs(RSub(records[i].t, kept[Len(kept)].t)), Tol1e9)
    THEN C9_Kept(records, i + 1, kept)
    ELSE C9_Kept(records, i + 1, Append(kept, records[i]))

C9_Pair(kept, p) == <<<<kept[2 * p - 1].x, kept[2 * p - 1].y>>, <<kept[2 * p].x, kept[2 * p].y>>>>

C9_PairInside(kept, p) ==
    point_in_polygon(RDiv(RAdd(kept[2 * p - 1].x, kept[2 * p].x), R(2)),
                     RDiv(RAdd(kept[2 * p - 1].y, kept[2 * p].y), R(2)),
                     polygon.rows, effective_polygon_length(polygon.rows))

\* The pairs (0,1), (2,3), ... whose midpoint tests inside, in order.
RECURSIVE C9_Emitted(_, _)
C9_Emitted(kept, p) ==
    IF p = 0 THEN <<>>
    ELSE IF C9_PairInside(kept, p) THEN Append(C9_Emitted(kept, p - 1), C9_Pair(kept, p))
    ELSE C9_Emitted(kept, p - 1)

C9_LineSegments(sorted) ==
    IF Len(sorted) < 2 THEN <<>>
    ELSE C9_Emitted(C9_Kept(sorted, 1, <<>>), Len(C9_Kept(sorted, 1, <<>>)) \div 2)

RECURSIVE C9_Expected(_)
C9_Expected(m) ==
    IF m = 0 THEN <<>>
    ELSE C9_Expected(m - 1)
            \o C9_LineSegments(C9_Sorted(args.line_starts.rows[m], args.line_ends.rows[m]))

C9_GapsKept(kept) ==
    \A i \in 1..(Len(kept) - 1) :
        ~TolLt(RAbs(RSub(kept[i + 1].t, kept[i].t)), Tol1e9)

\* C9: per line, clip_lines_to_polygon emits nothing when fewer than 2 edges
\* give an accepted intersection; otherwise the records sorted by t are
\* reduced by dropping each record within 1e-9 in t of the last record kept,
\* the kept records are paired (0,1),(2,3),... with an odd last one dropped,
\* and a pair is emitted exactly when its midpoint tests inside.  A line emits
\* at most floor(k/2) segments for k kept records, and records kept
\* consecutively differ in t by at least 1e-9.
C9_PerLine ==
    ClipCalled =>
        /\ ret = List(C9_Expected(Len(args.line_starts.rows)))
        /\ \A m \in 1..Len(args.line_starts.rows) :
              LET sorted == C9_Sorted(args.line_starts.rows[m], args.line_ends.rows[m])
                  kept == C9_Kept(sorted, 1, <<>>)
              IN  /\ Len(C9_LineSegments(sorted)) <= Len(kept) \div 2
                  /\ C9_GapsKept(kept)

\* A line whose last record is kept, being 1e-9 or more from the last record
\* kept, though it is within 1e-9 of the record scanned before it.
C9_Witness ==
    /\ ClipCalled
    /\ Len(args.line_starts.rows) = 1
    /\ args.eps = DefaultEps
    /\ ret.kind = "list"
    /\ LET sorted == C9_Sorted(args.line_starts.rows[1], args.line_ends.rows[1])
           kept == C9_Kept(sorted, 1, <<>>)
       IN  /\ Len(sorted) = 4
           /\ Len(kept) = 2
           /\ kept[2] = sorted[4]
           /\ sorted[4].t # sorted[3].t
           /\ TolLt(RAbs(RSub(sorted[4].t, sorted[3].t)), Tol1e9)
           /\ ~TolLt(RAbs(RSub(sorted[4].t, kept[1].t)), Tol1e9)

\* (a - o) x (b - o).
Cross(o, a, b) ==
    RSub(RMul(RSub(a[1], o[1]), RSub(b[2], o[2])),
         RMul(RSub(a[2], o[2]), RSub(b[1], o[1])))

\* Vertex i (from 1) of the ring of the polygon's effective vertices.
RingVertex(i) == polygon.rows[((i - 1) % effective_polygon_length(polygon.rows)) + 1]

\* Which side of edge i the point p is on, counted positive towards the
\* inside of a ring that turns the way s says (1: counter-clockwise).
SideOfEdge(s, i, p) == RMul(R(s), Cross(RingVertex(i), RingVertex(i + 1), p))

\* The ring is a simple convex polygon: its vertices differ, every edge has
\* all of them on one and the same side, and they are not all on one line.
ConvexRing(s) ==
    LET n == effective_polygon_length(polygon.rows)
    IN  /\ n >= 3
        /\ \A i, k \in 1..n : (i # k) => RingVertex(i) # RingVertex(k)
        /\ \A i, k \in 1..n : RLe(R(0), SideOfEdge(s, i, RingVertex(k)))
        /\ \E i, k \in 1..n : RLt(R(0), SideOfEdge(s, i, RingVertex(k)))

\* The point from..to at which the side of edge i changes sign.
CrossingParam(s, i, from, to) ==
    RDiv(SideOfEdge(s, i, from), RSub(SideOfEdge(s, i, from), SideOfEdge(s, i, to)))

\* The line from..to fully crosses the convex ring: both endpoints lie
\* outside, and some point strictly between them lies strictly inside.
FullyCrosses(s, from, to) ==
    LET n == effective_polygon_length(polygon.rows)
    IN  /\ \E i \in 1..n : RLt(SideOfEdge(s, i, from), R(0))
        /\ \E i \in 1..n : RLt(SideOfEdge(s, i, to), R(0))
        /\ \A i \in 1..n : RLt(R(0), SideOfEdge(s, i, from)) \/ RLt(R(0), SideOfEdge(s, i, to))
        /\ \A i, j \in 1..n :
              (RLe(SideOfEdge(s, i, from), R(0)) /\ RLe(SideOfEdge(s, j, to), R(0)))
                 => RLt(CrossingParam(s, i, from, to), CrossingParam(s, j, from, to))

\* p lies on an edge of the ring.
OnBoundary(p) ==
    \E i \in 1..effective_polygon_length(polygon.rows) :
        /\ Cross(RingVertex(i), RingVertex(i + 1), p) = R(0)
        /\ RLe(RMin(RingVertex(i)[1], RingVertex(i + 1)[1]), p[1])
        /\ RLe(p[1], RMax(RingVertex(i)[1], RingVertex(i + 1)[1]))
        /\ RLe(RMin(RingVertex(i)[2], RingVertex(i + 1)[2]), p[2])
        /\ RLe(p[2], RMax(RingVertex(i)[2], RingVertex(i + 1)[2]))

\* One line, at the default eps, fully crossing a simple convex polygon.
ConvexCrossed ==
    /\ fn = "clip"
    /\ ClipCalled
    /\ args.eps = DefaultEps
    /\ Len(args.line_starts.rows) = 1
    /\ \E s \in {1, -1} :
          /\ ConvexRing(s)
          /\ FullyCrosses(s, args.line_starts.rows[1], args.line_ends.rows[1])

\* C2: for a simple convex polygon and a line that fully crosses it (both
\* endpoints outside, passing through the interior, through vertices or not),
\* clip_lines_to_polygon returns exactly one segment for the line, with both
\* endpoints on the polygon boundary and a midpoint that point_in_polygon
\* finds inside; the unit square and the line (-1,0.5)-(2,0.5) give exactly
\* the segment (0,0.5)-(1,0.5).
C2_ConvexOneSegment ==
    /\ ConvexCrossed =>
          /\ ret.kind = "list"
          /\ Len(ret.val) = 1
          /\ OnBoundary(ret.val[1][1])
          /\ OnBoundary(ret.val[1][2])
          /\ point_in_polygon(RDiv(RAdd(ret.val[1][1][1], ret.val[1][2][1]), R(2)),
                              RDiv(RAdd(ret.val[1][1][2], ret.val[1][2][2]), R(2)),
                              polygon.rows, effective_polygon_length(polygon.rows))
    /\ (/\ ConvexCrossed
        /\ polygon.rows = Square
        /\ args.line_starts.rows = <<HPt(-2, 1)>>
        /\ args.line_ends.rows = <<HPt(4, 1)>>)
          => ret.val = <<<<HPt(0, 1), HPt(2, 1)>>>>

\* C7: clipping is idempotent: a segment S that clip_lines_to_polygon
\* returned, given again as the only line against the same polygon with the
\* same eps, comes back as exactly one segment equal to S.
C7_Idempotent == (fn = "reclip" /\ args.eps = DefaultEps) => ret = List(prev)

----------------------------------------------------------------------------
(* Properties of generate_line_fill.                                       *)

\* The unit square filled at spacing 0.25 and angle 0, the rest by default.
UnitSquareFill ==
    /\ fn = "fill"
    /\ polygon = Buffer(Square)
    /\ args.spacing = Q(1, 4)
    /\ args.angle = R(0)
    /\ args.centroid = PyNone
    /\ args.bbox_diag = PyNone
    /\ args.overshoot = R(2)

\* Every segment returned is horizontal and spans x from 0 to 1.
FullWidthSegments ==
    \A k \in 1..Len(ret.val) :
        /\ ret.val[k][1][2] = ret.val[k][2][2]
        /\ {ret.val[k][1][1], ret.val[k][2][1]} = {R(0), R(1)}

SegmentHeights == {ret.val[k][1][2] : k \in 1..Len(ret.val)}

\* C3: generate_line_fill on the unit square with spacing 0.25, angle 0 and
\* default centroid, bbox_diag and overshoot returns only horizontal segments
\* spanning x from 0 to 1, four of them, at the y-values 0.125, 0.375, 0.625
\* and 0.875.
C3_MidlineHeights ==
    UnitSquareFill =>
        /\ ret.kind = "list"
        /\ FullWidthSegments
        /\ Len(ret.val) = 4
        /\ SegmentHeights = {Q(1, 8), Q(3, 8), Q(5, 8), Q(7, 8)}

\* C3 as the code has it: the lines lie at centroid + k * spacing, and the
\* four segments are at the y-values 0, 0.25, 0.5 and 0.75.
C3_CentredHeights ==
    UnitSquareFill =>
        /\ ret.kind = "list"
        /\ FullWidthSegments
        /\ Len(ret.val) = 4
        /\ SegmentHeights = {R(0), Q(1, 4), Q(1, 2), Q(3, 4)}

C3_Witness == UnitSquareFill /\ Len(ret.val) = 4 /\ R(0) \in SegmentHeights

\* A centroid that is given and is not a sequence of two numbers.
BadCentroid(obj) ==
    /\ obj.kind # "none"
    /\ \/ obj.kind # "seq"
       \/ Len(obj.items) # 2
       \/ \E k \in 1..Len(obj.items) : obj.items[k].kind # "num"

\* C8: generate_line_fill with spacing > 0 and a centroid that is given but
\* is not a 2-element numeric sequence fails with a type or value error and
\* returns no list, for every polygon buffer of valid shape and dtype,
\* those of effective length under 3 included.
C8_BadCentroidRaises ==
    (/\ fn = "fill"
     /\ WellFormed(polygon)
     /\ RGt(args.spacing, R(0))
     /\ BadCentroid(args.centroid))
        => (ret.kind = "error" /\ ret.exc \in {"TypeError", "ValueError"})

\* The lines of C10: line k runs from centroid + k*spacing*perp -
\* overshoot*bbox_diag*dir to centroid + k*spacing*perp + overshoot*bbox_diag*dir.
C10_Line(k, centroid, dir, reach) ==
    LET mid == <<RAdd(centroid[1], RMul(RMul(R(k), args.spacing), RNeg(dir[2]))),
                 RAdd(centroid[2], RMul(RMul(R(k), args.spacing), dir[1]))>>
    IN  <<<<RSub(mid[1], RMul(reach, dir[1])), RSub(mid[2], RMul(reach, dir[2]))>>,
          <<RAdd(mid[1], RMul(reach, dir[1])), RAdd(mid[2], RMul(reach, dir[2]))>>>>

C10_Count(bbox_diag) ==
    RTrunc(RDiv(bbox_diag, RMax(args.spacing, Q(1, 1000000)))) + 3

C10_Lines(count, centroid, dir, reach) ==
    [m \in 1..(2 * count + 1) |-> C10_Line(m - count - 1, centroid, dir, reach)]

\* A fill that reaches the line loop: effective length 3 or more, spacing
\* > 0, centroid and bbox_diag accepted, and the resolved bbox_diag > 0.
FillReachesLines ==
    /\ fn = "fill"
    /\ WellFormed(polygon)
    /\ effective_polygon_length(polygon.rows) >= 3
    /\ RGt(args.spacing, R(0))
    /\ ~BadCentroid(args.centroid)
    /\ args.bbox_diag.kind \in {"none", "num"}
    /\ RGt(ResolveBBox(args.bbox_diag, polygon.rows,
                       effective_polygon_length(polygon.rows)), R(0))

C10_Clipped(centroid, bbox_diag, overshoot) ==
    clip_lines_to_polygon(
        polygon,
        Buffer(Starts(C10_Lines(C10_Count(bbox_diag), <<centroid.x, centroid.y>>,
                                UnitDirection(args.angle), RMul(overshoot, bbox_diag)))),
        Buffer(Ends(C10_Lines(C10_Count(bbox_diag), <<centroid.x, centroid.y>>,
                              UnitDirection(args.angle), RMul(overshoot, bbox_diag)))),
        DefaultEps)

\* C10: for a polygon of effective length >= 3, spacing > 0 and resolved
\* bbox_diag > 0, the result of generate_line_fill equals, element for
\* element and in order, that of clip_lines_to_polygon with eps = 1e-10 on
\* the lines k = -count .. +count, count = floor(bbox_diag / max(spacing,
\* 1e-6)) + 3, each running from centroid + k*spacing*perp - overshoot*
\* bbox_diag*dir to centroid + k*spacing*perp + overshoot*bbox_diag*dir.
C10_FillIsClip ==
    FillReachesLines =>
        ret = C10_Clipped(ResolveCentroid(args.centroid, polygon.rows,
                                          effective_polygon_length(polygon.rows)),
                          ResolveBBox(args.bbox_diag, polygon.rows,
                                      effective_polygon_length(polygon.rows)),
                          ResolveOvershoot(args.overshoot))

\* A fill at a spacing under 1e-6, where max(spacing, 1e-6) decides the
\* count: nine lines, each giving a segment.
C10_Witness ==
    /\ FillReachesLines
    /\ args.spacing = TinySpacing
    /\ Len(ret.val) = 9

----------------------------------------------------------------------------
(* clip_lines_to_polygon step by step: the locals of the call in progress  *)
(* (frame) and one action per statement that reads or writes the scratch   *)
(* array.  Indices i, j, count and unique_count are the code's, from 0;    *)
(* entry k of the array is intersections[k + 1].  touched is the set of    *)
(* array indices the last step read or wrote, fresh the set of indices     *)
(* written since count was last set to 0.  An access outside the array is  *)
(* undefined in the code; here it leaves the array as it is and shows in   *)
(* touched.                                                                *)

\* intersections[k] = rec.
PutRecord(intersections, k, rec) ==
    IF k + 1 \in DOMAIN intersections THEN [intersections EXCEPT ![k + 1] = rec]
    ELSE intersections

\* Lines 189-207: the result list and the scratch array of polygon_len
\* entries are made, and the loop over the lines starts at i = 0.
EnterFrame(polygon_len) ==
    [pc |-> "line", i |-> 0, j |-> 0, count |-> 0, unique_count |-> 0,
     intersections |-> [k \in 1..polygon_len |-> Unwritten], result |-> <<>>,
     touched |-> {}, fresh |-> {}]

\* The scan started with count left as the line before had it.
StartLine_KeepCount(f) ==
    [f EXCEPT !.pc = "scan", !.j = 0, !.touched = {}, !.fresh = {}]

\* Lines 208-212: a line is taken up; count = 0 and the scan starts at j = 0.
StartLine(f) ==
    [f EXCEPT !.pc = "scan", !.j = 0, !.count = 0, !.touched = {}, !.fresh = {}]

\* Lines 213-218: edge j is examined; a hit is stored at index count.
ExamineEdge(f, start, end, poly, polygon_len, eps) ==
    LET ip == compute_line_segment_intersection(
                  start, end, poly[f.j + 1], poly[((f.j + 1) % polygon_len) + 1], eps)
    IN  IF ip.hit
        THEN [f EXCEPT !.intersections =
                           PutRecord(@, f.count, [t |-> ip.t, x |-> ip.x, y |-> ip.y]),
                       !.count = @ + 1, !.j = @ + 1,
                       !.touched = {f.count}, !.fresh = @ \cup {f.count}]
        ELSE [f EXCEPT !.j = @ + 1, !.touched = {}]

\* Lines 221-223 and 207: with fewer than 2 records the next line is taken up.
EndScan(f) ==
    IF f.count < 2 THEN [f EXCEPT !.pc = "line", !.i = @ + 1, !.touched = {}]
    ELSE [f EXCEPT !.pc = "sort", !.touched = {}]

\* Lines 225-229: the first count records are sorted; the dedupe starts.
SortRecords(f) ==
    [f EXCEPT !.intersections = SortByT(@, f.count), !.pc = "dedupe", !.j = 0,
              !.unique_count = 0, !.touched = 0..(f.count - 1)]

\* Lines 231-234: record j is dropped as a repeat of record unique_count - 1,
\* or copied to index unique_count.
DedupeRecord(f) ==
    IF IsRepeat(f.intersections, f.j, f.unique_count)
    THEN [f EXCEPT !.j = @ + 1, !.touched = {f.j, f.unique_count - 1}]
    ELSE [f EXCEPT !.intersections = PutRecord(@, f.unique_count, f.intersections[f.j + 1]),
                   !.unique_count = @ + 1, !.j = @ + 1,
                   !.touched = {f.j, f.unique_count}
                                  \cup (IF f.unique_count > 0 THEN {f.unique_count - 1} ELSE {})]

\* Line 237: the loop over the pairs starts at j = 0.
EndDedupe(f) == [f EXCEPT !.pc = "pairs", !.j = 0, !.touched = {}]

\* Lines 238-286: records j and j + 1 are read; the pair is appended to the
\* result when its midpoint tests inside.
EmitPair(f, poly, polygon_len) ==
    [f EXCEPT !.result =
                  IF MidpointInside(f.intersections[f.j + 1], f.intersections[f.j + 2],
                                    poly, polygon_len)
                  THEN Append(@, <<<<f.intersections[f.j + 1].x, f.intersections[f.j + 1].y>>,
                                   <<f.intersections[f.j + 2].x, f.intersections[f.j + 2].y>>>>)
                  ELSE @,
              !.j = @ + 2, !.touched = {f.j, f.j + 1}]

\* Lines 237 and 207: the pairs are done; the next line is taken up.
EndPairs(f) == [f EXCEPT !.pc = "line", !.i = @ + 1, !.touched = {}]

ScratchPolygonBuffers == {Buffer(rows) : rows \in PolygonRows \cup FillPolygonRows}

InitScratch ==
    /\ fn = "idle"
    /\ polygon \in ScratchPolygonBuffers
    /\ args = NoArgs
    /\ ret = NoRet
    /\ prev = <<>>
    /\ frame = NoFrame

\* Lines 139-186: the call that returns before the loop (empty list).
ReturnEarly ==
    /\ fn = "idle"
    /\ \E ls \in LineInputs, eps \in EpsChoices :
          /\ effective_polygon_length(polygon.rows) < 3 \/ Len(ls) <= 0
          /\ args' = [line_starts |-> Buffer(Starts(ls)), line_ends |-> Buffer(Ends(ls)),
                      eps |-> eps]
    /\ ret' = List(<<>>)
    /\ fn' = "clip"
    /\ UNCHANGED <<polygon, prev, frame>>

\* Lines 139-207: the call that reaches the loop over the lines.
EnterLoop ==
    /\ fn = "idle"
    /\ effective_polygon_length(polygon.rows) >= 3
    /\ \E ls \in LineInputs \ {<<>>}, eps \in EpsChoices :
          args' = [line_starts |-> Buffer(Starts(ls)), line_ends |-> Buffer(Ends(ls)),
                   eps |-> eps]
    /\ frame' = EnterFrame(effective_polygon_length(polygon.rows))
    /\ fn' = "running"
    /\ UNCHANGED <<polygon, ret, prev>>

NumLines == Len(args.line_starts.rows)

\* Line 207, i < num_lines: the next line is taken up.
TakeLine ==
    /\ fn = "running"
    /\ frame.pc = "line"
    /\ frame.i < NumLines
    /\ frame' = StartLine(frame)
    /\ UNCHANGED <<fn, polygon, args, ret, prev>>

\* Line 212, j < polygon_len: one edge is examined.
ScanEdge ==
    /\ fn = "running"
    /\ frame.pc = "scan"
    /\ frame.j < effective_polygon_length(polygon.rows)
    /\ frame' = ExamineEdge(frame, args.line_starts.rows[frame.i + 1],
                            args.line_ends.rows[frame.i + 1], polygon.rows,
                            effective_polygon_length(polygon.rows), args.eps)
    /\ UNCHANGED <<fn, polygon, args, ret, prev>>

\* Line 212, j = polygon_len: the scan is over.
FinishScan ==
    /\ fn = "running"
    /\ frame.pc = "scan"
    /\ frame.j >= effective_polygon_length(polygon.rows)
    /\ frame' = EndScan(frame)
    /\ UNCHANGED <<fn, polygon, args, ret, prev>>

\* Lines 225-229.
Sort ==
    /\ fn = "running"
    /\ frame.pc = "sort"
    /\ frame' = SortRecords(frame)
    /\ UNCHANGED <<fn, polygon, args, ret, prev>>

\* Line 230, j < count: one record is deduped.
Dedupe ==
    /\ fn = "running"
    /\ frame.pc = "dedupe"
    /\ frame.j < frame.count
    /\ frame' = DedupeRecord(frame)
    /\ UNCHANGED <<fn, polygon, args, ret, prev>>

\* Line 230, j = count: the dedupe is over.
FinishDedupe ==
    /\ fn = "running"
    /\ frame.pc = "dedupe"
    /\ frame.j >= frame.count
    /\ frame' = EndDedupe(frame)
    /\ UNCHANGED <<fn, polygon, args, ret, prev>>

\* Line 237, j + 1 < unique_count: one pair is read.
Pair ==
    /\ fn = "running"
    /\ frame.pc = "pairs"
    /\ frame.j + 1 < frame.unique_count
    /\ frame' = EmitPair(frame, polygon.rows, effective_polygon_length(polygon.rows))
    /\ UNCHANGED <<fn, polygon, args, ret, prev>>

\* Line 237, j + 1 >= unique_count: the pairs are over.
FinishPairs ==
    /\ fn = "running"
    /\ frame.pc = "pairs"
    /\ frame.j + 1 >= frame.unique_count
    /\ frame' = EndPairs(frame)
    /\ UNCHANGED <<fn, polygon, args, ret, prev>>

\* Lines 207 and 289-293, i = num_lines: the array is freed and the result
\* returned.
ReturnResult ==
    /\ fn = "running"
    /\ frame.pc = "line"
    /\ frame.i >= NumLines
    /\ ret' = List(frame.result)
    /\ frame' = NoFrame
    /\ fn' = "clip"
    /\ UNCHANGED <<polygon, args, prev>>

NextScratch ==
    \/ ReturnEarly \/ EnterLoop \/ TakeLine \/ ScanEdge \/ FinishScan \/ Sort
    \/ Dedupe \/ FinishDedupe \/ Pair \/ FinishPairs \/ ReturnResult

SpecScratch == InitScratch /\ [][NextScratch]_vars

\* C11: in clip_lines_to_polygon the scratch array of intersection records,
\* allocated once with polygon_len entries, is never written or read out of
\* bounds.  While edge j is examined 0 <= count <= j <= polygon_len; during
\* the dedupe unique_count <= j, so no record is overwritten before it is
\* read; when the pairs are read unique_count <= count <= polygon_len; and
\* count is 0 at the start of each line, so every record sorted, deduped or
\* paired was written for the line in hand.
C11_ScratchInBounds ==
    (fn = "running") =>
        LET polygon_len == effective_polygon_length(polygon.rows)
        IN  /\ Len(frame.intersections) = polygon_len
            /\ frame.touched \subseteq 0..(polygon_len - 1)
            /\ (frame.pc = "scan") =>
                  /\ 0 <= frame.count
                  /\ frame.count <= frame.j
                  /\ frame.j <= polygon_len
                  /\ (frame.j = 0) => (frame.count = 0)
            /\ (frame.pc = "dedupe") =>
                  /\ frame.unique_count <= frame.j
                  /\ frame.j <= frame.count
                  /\ frame.count <= polygon_len
            /\ (frame.pc = "pairs") =>
                  /\ frame.unique_count <= frame.count
                  /\ frame.count <= polygon_len
            /\ (frame.pc \in {"sort", "dedupe", "pairs"}) =>
                  /\ frame.fresh = 0..(frame.count - 1)
                  /\ frame.touched \subseteq frame.fresh

\* The pairs of a later line are read while the array still holds, past
\* count, a record an earlier line left there.
C11_Witness ==
    /\ fn = "running"
    /\ frame.pc = "pairs"
    /\ frame.i >= 1
    /\ frame.touched # {}
    /\ frame.unique_count < frame.count
    /\ \E k \in frame.count..(Len(frame.intersections) - 1) :
          frame.intersections[k + 1] # Unwritten

====
